---- MODULE Spec2Model ----
(***************************************************************************)
(* A model of src/src/gridnet_patches.py (codyheiser/st_gridnet):          *)
(*   - GridNet.patch_predictions: the flatten / chunk / concatenate /      *)
(*     reshape / permute pipeline, one action per statement or loop        *)
(*     iteration (specification SpecPP);                                   *)
(*   - train_model: the epoch / phase / batch loop with background         *)
(*     masking, gradient accumulation, the two optimizers, the best        *)
(*     snapshot and the final restore (specification Spec).                *)
(* Tensors are records [shape, data] with data the row-major flattening.   *)
(***************************************************************************)
EXTENDS Integers, Sequences, FiniteSets, TLC

\* ------------------------------------------------------------------ bounds

MaxBatch == 2
MaxGridH == 2
MaxGridW == 2
MaxLimit == 5
MaxFlat == 3

\* Python's None, for an optional value held as a sequence of length <= 1.
None == <<>>

Some(v) == <<v>>

\* ------------------------------------------------------------ arithmetic

Min(a, b) == IF a < b THEN a ELSE b

RECURSIVE Prod(_)
Prod(s) == IF s = <<>> THEN 1 ELSE Head(s) * Prod(Tail(s))

RECURSIVE Sum(_)
Sum(s) == IF s = <<>> THEN 0 ELSE Head(s) + Sum(Tail(s))

CeilDiv(n, d) == (n + d - 1) \div d

\* ---------------------------------------------------------------- tensors

Tensor(shape, data) == [shape |-> shape, data |-> data]

Numel(t) == Len(t.data)

\* len(t): the size of dimension 0.
TLen(t) == t.shape[1]

\* The number of elements of one slice along dimension 0.
RowSize(t) == Prod(Tail(t.shape))

\* Row k (0-based) of t along dimension 0, as a flat sequence.
Row(t, k) == SubSeq(t.data, k * RowSize(t) + 1, (k + 1) * RowSize(t))

\* torch.reshape(t, (-1,) + rest): the data is kept in row-major order and
\* the leading dimension is inferred.  It raises when the product of the
\* given dimensions is 0 (the inference is ambiguous or impossible) or the
\* element count is not a multiple of it; a tensor without elements
\* reshapes to leading dimension 0.
ReshapeRaises(t, rest) ==
    \/ Prod(rest) = 0
    \/ Numel(t) % Prod(rest) # 0

Reshape(t, rest) == Tensor(<<Numel(t) \div Prod(rest)>> \o rest, t.data)

\* t.narrow(0, start, length)
Narrow(t, start, length) ==
    Tensor(<<length>> \o Tail(t.shape),
           SubSeq(t.data, start * RowSize(t) + 1, (start + length) * RowSize(t)))

\* torch.cat(chunks, 0) of a non-empty list of tensors of equal row shape;
\* it raises on an empty list.
CatRaises(chunks) == chunks = <<>>

RECURSIVE CatData(_)
CatData(chunks) ==
    IF chunks = <<>> THEN <<>> ELSE Head(chunks).data \o CatData(Tail(chunks))

RECURSIVE CatLen(_)
CatLen(chunks) ==
    IF chunks = <<>> THEN 0 ELSE TLen(Head(chunks)) + CatLen(Tail(chunks))

Cat(chunks) == Tensor(<<CatLen(chunks)>> \o Tail(chunks[1].shape), CatData(chunks))

\* Row-major strides of a shape, and the element at a 0-based multi-index.
Strides(shape) == [d \in 1..Len(shape) |-> Prod(SubSeq(shape, d + 1, Len(shape)))]

Offset(shape, idx) ==
    Sum([d \in 1..Len(shape) |-> idx[d] * Strides(shape)[d]])

At(t, idx) == t.data[Offset(t.shape, idx) + 1]

\* The 0-based multi-index of flat position f (0-based) in a shape.
Unravel(shape, f) ==
    [d \in 1..Len(shape) |-> (f \div Strides(shape)[d]) % shape[d]]

\* t.permute(perm): dimension d of the result is dimension perm[d] (0-based
\* in the source, so perm[d] + 1 here) of t.
PermuteBy(t, perm) ==
    LET nshape == [d \in 1..Len(perm) |-> t.shape[perm[d] + 1]]
        src(idx) == [e \in 1..Len(perm) |->
                        idx[CHOOSE d \in 1..Len(perm) : perm[d] + 1 = e]]
    IN  Tensor(nshape,
               [f \in 1..Numel(t) |-> At(t, src(Unravel(nshape, f - 1)))])

\* ------------------------------------------------- GridNet: configuration

\* The shapes, class counts, classifier weights and pixel offsets tried.
PatchShapes == {<<1, 1, 1>>, <<2, 1, 1>>, <<1, 1, 2>>}

ClassCounts == {2, 3}

ClassifierWeights == {1, 2}

PixelSeeds == {0, 1}

VARIABLES
    \* GridNet fields (set by __init__)
    patch_shape, grid_shape, n_classes, atonce_patch_limit,
    \* the patch classifier: its weight, and whether any parameter is trainable
    pc_weight, pc_trainable,
    \* patch_predictions: argument, program position and locals
    x, pp_pc, patch_list, cp_chunks, count, patch_pred_list, patch_pred_grid,
    \* history: one record per loop iteration, and the number of _ppl calls
    chunk_log, ppl_calls

VARIABLES
    \* train_model arguments: num_epochs, finetune, accum_iters, f_opt (None
    \* or the secondary optimizer's state), outfile, and the batches each
    \* dataloader yields
    num_epochs, finetune, accum_iters, f_opt, outfile, n_train, n_val,
    \* the primary optimizer's state
    optimizer,
    \* program position
    tm_pc, epoch, phase, batch_ind,
    \* the model: its weights and the gradients accumulated in .grad
    params, grads,
    \* per-phase statistics
    running_loss, running_corrects, running_foreground,
    \* the batch the loader yielded with the model's raw output for it, and
    \* the loop body's locals
    batch, outputs, labels, loss, preds,
    \* best-so-far state and the returned history
    best_acc, best_model_wts, val_acc_history,
    \* the files written by torch.save
    disk,
    \* history: every optimizer step, every validation phase, and the number
    \* of times the best snapshot was replaced
    step_log, val_log, n_snapshots

tm_vars == <<num_epochs, finetune, accum_iters, f_opt, outfile, n_train, n_val,
             optimizer, tm_pc, epoch, phase, batch_ind, params, grads,
             running_loss, running_corrects, running_foreground,
             batch, outputs, labels, loss, preds,
             best_acc, best_model_wts, val_acc_history, disk,
             step_log, val_log, n_snapshots>>

pp_vars == <<patch_shape, grid_shape, n_classes, atonce_patch_limit,
             pc_weight, pc_trainable, x, pp_pc, patch_list, cp_chunks, count,
             patch_pred_list, patch_pred_grid, chunk_log, ppl_calls>>

\* The constant passed as the gradient-tracked dummy argument.
dummy_tensor == Tensor(<<1>>, <<1>>)

\* The class scores the patch classifier gives one patch: a function of
\* that patch alone (the classifier is in eval mode).
PatchScores(patch) == [c \in 1..n_classes |-> pc_weight * Sum(patch) + (c - 1)]

RECURSIVE ScoreRows(_, _)
ScoreRows(pl, k) ==
    IF k >= TLen(pl) THEN <<>>
    ELSE PatchScores(Row(pl, k)) \o ScoreRows(pl, k + 1)

\* patch_classifier(patches): (n, c, h, w) -> (n, n_classes)
patch_classifier(pl) == Tensor(<<TLen(pl), n_classes>>, ScoreRows(pl, 0))

\* GridNet._ppl
_ppl(pl, dummy_arg) == patch_classifier(pl)

\* torch.utils.checkpoint.checkpoint(self._ppl, tmp, dummy): the forward
\* value is that of the wrapped call; only what is kept for backward differs.
cp_checkpoint(pl, dummy_arg) == _ppl(pl, dummy_arg)

\* An input of shape (batch, grid_h, grid_w) + patch_shape whose elements
\* are all different: element f (0-based) holds seed + f.
InputTensor(b, gs, ps, seed) ==
    LET shape == <<b>> \o gs \o ps
    IN  Tensor(shape, [f \in 1..Prod(shape) |-> seed + f - 1])

\* A tensor that is not laid out as a batch of grids: n elements in one
\* dimension, element f (0-based) holding seed + f.
FlatInput(n, seed) == Tensor(<<n>>, [f \in 1..n |-> seed + f - 1])

vars == <<pp_vars, tm_vars>>

\* The network while patch_predictions is not running; its patch classifier
\* is frozen, as lines 356-358 leave a pre-trained one.
PPIdle ==
    /\ patch_shape = <<1, 1, 1>> /\ grid_shape = <<1, 1>> /\ n_classes = 2
    /\ atonce_patch_limit = None /\ pc_weight = 1 /\ pc_trainable = FALSE
    /\ x = Tensor(<<0>>, <<>>) /\ pp_pc = "idle"
    /\ patch_list = None /\ cp_chunks = <<>> /\ count = 0
    /\ patch_pred_list = None /\ patch_pred_grid = None
    /\ chunk_log = <<>> /\ ppl_calls = 0

PPInit ==
    /\ patch_shape \in PatchShapes
    /\ grid_shape \in {<<h, w>> : h \in 1..MaxGridH, w \in 1..MaxGridW}
    /\ n_classes \in ClassCounts
    /\ atonce_patch_limit \in {None} \cup {Some(l) : l \in 1..MaxLimit}
    /\ pc_weight \in ClassifierWeights
    /\ pc_trainable \in BOOLEAN
    /\ \E seed \in PixelSeeds :
          \/ \E b \in 0..MaxBatch :
                x = InputTensor(b, grid_shape, patch_shape, seed)
          \/ \E n \in 1..MaxFlat : x = FlatInput(n, seed)
    /\ pp_pc = "start"
    /\ patch_list = None /\ cp_chunks = <<>> /\ count = 0
    /\ patch_pred_list = None /\ patch_pred_grid = None
    /\ chunk_log = <<>> /\ ppl_calls = 0

\* line 73: patch_list = torch.reshape(x, (-1,)+self.patch_shape) raises for
\* an input whose element count is not a multiple of the patch size.
FlattenRaises ==
    /\ UNCHANGED tm_vars
    /\ pp_pc = "start"
    /\ ReshapeRaises(x, patch_shape)
    /\ pp_pc' = "raised@73"
    /\ UNCHANGED <<patch_shape, grid_shape, n_classes, atonce_patch_limit,
                   pc_weight, pc_trainable, x, patch_list, cp_chunks, count,
                   patch_pred_list, patch_pred_grid, chunk_log, ppl_calls>>

\* lines 73-75, 79-80
Flatten ==
    /\ UNCHANGED tm_vars
    /\ pp_pc = "start"
    /\ ~ReshapeRaises(x, patch_shape)
    /\ patch_list' = Reshape(x, patch_shape)
    /\ pp_pc' = IF atonce_patch_limit = None THEN "atonce" ELSE "loop"
    /\ cp_chunks' = <<>>
    /\ count' = 0
    /\ UNCHANGED <<patch_shape, grid_shape, n_classes, atonce_patch_limit,
                   pc_weight, pc_trainable, x, patch_pred_list,
                   patch_pred_grid, chunk_log, ppl_calls>>

\* line 76
ClassifyAtOnce ==
    /\ UNCHANGED tm_vars
    /\ pp_pc = "atonce"
    /\ patch_pred_list' = _ppl(patch_list, dummy_tensor)
    /\ ppl_calls' = ppl_calls + 1
    /\ pp_pc' = "grid"
    /\ UNCHANGED <<patch_shape, grid_shape, n_classes, atonce_patch_limit,
                   pc_weight, pc_trainable, x, patch_list, cp_chunks, count,
                   patch_pred_grid, chunk_log>>

\* line 83: the offset the chunk is taken from
ChunkStart == count

\* line 82
ChunkLengthOffByOne ==
    Min(atonce_patch_limit[1], TLen(patch_list) - count - 1)

ChunkLength == Min(atonce_patch_limit[1], TLen(patch_list) - count)

\* line 93
NextCountOverlapping == count + atonce_patch_limit[1] - 1

NextCount == count + atonce_patch_limit[1]

\* lines 81-93: one iteration of the chunking loop
ChunkIter ==
    /\ UNCHANGED tm_vars
    /\ pp_pc = "loop"
    /\ count < TLen(patch_list)
    /\ LET length == ChunkLength
           tmp == Narrow(patch_list, ChunkStart, length)
           chunk == IF pc_trainable THEN cp_checkpoint(tmp, dummy_tensor)
                    ELSE _ppl(tmp, dummy_tensor)
       IN  /\ cp_chunks' = Append(cp_chunks, chunk)
           /\ chunk_log' = Append(chunk_log,
                  [start |-> ChunkStart, length |-> length,
                   checkpointed |-> pc_trainable])
    /\ ppl_calls' = ppl_calls + 1
    /\ count' = NextCount
    /\ UNCHANGED <<patch_shape, grid_shape, n_classes, atonce_patch_limit,
                   pc_weight, pc_trainable, x, pp_pc, patch_list,
                   patch_pred_list, patch_pred_grid>>

\* lines 81, 94: the loop exits and the chunks are concatenated; with no
\* chunk at all (no patch) torch.cat raises
ChunkCat ==
    /\ UNCHANGED tm_vars
    /\ pp_pc = "loop"
    /\ ~(count < TLen(patch_list))
    /\ IF CatRaises(cp_chunks)
       THEN /\ pp_pc' = "raised@94"
            /\ UNCHANGED patch_pred_list
       ELSE /\ patch_pred_list' = Cat(cp_chunks)
            /\ pp_pc' = "grid"
    /\ UNCHANGED <<patch_shape, grid_shape, n_classes, atonce_patch_limit,
                   pc_weight, pc_trainable, x, patch_list, cp_chunks, count,
                   patch_pred_grid, chunk_log, ppl_calls>>

\* line 97
GridPermutationTransposed == <<0, 3, 2, 1>>

GridPermutation == <<0, 3, 1, 2>>

\* lines 96-99; the reshape of line 96 raises when the predictions do not
\* fill a whole number of grids
GridReshape ==
    /\ UNCHANGED tm_vars
    /\ pp_pc = "grid"
    /\ IF ReshapeRaises(patch_pred_list, grid_shape \o <<n_classes>>)
       THEN /\ pp_pc' = "raised@96"
            /\ UNCHANGED patch_pred_grid
       ELSE /\ patch_pred_grid' =
                  PermuteBy(Reshape(patch_pred_list,
                                    grid_shape \o <<n_classes>>),
                            GridPermutation)
            /\ pp_pc' = "done"
    /\ UNCHANGED <<patch_shape, grid_shape, n_classes, atonce_patch_limit,
                   pc_weight, pc_trainable, x, patch_list, cp_chunks, count,
                   patch_pred_list, chunk_log, ppl_calls>>

PPNext ==
    \/ FlattenRaises
    \/ Flatten
    \/ ClassifyAtOnce
    \/ ChunkIter
    \/ ChunkCat
    \/ GridReshape

\* ------------------------------------------------------------ train_model

MaxEpochs == 2
MaxTrainBatches == 2
MaxValBatches == 1
MaxAccum == 2

\* --classes default: the number of foreground classes
NClasses == 2

\* The shape (batch, d1, d2) of the label grids the loaders yield.
LabelShape == <<1, 1, 2>>

\* An accuracy is an exact fraction [n, d] in lowest terms with d > 0;
\* d = 0 is the float NaN.
RECURSIVE GCD(_, _)
GCD(a, b) == IF b = 0 THEN a ELSE GCD(b, a % b)

NaN == [n |-> 0, d |-> 0]

IsNaN(a) == a.d = 0

Frac(n, d) ==
    IF d = 0 THEN NaN
    ELSE LET g == GCD(IF n < 0 THEN -n ELSE n, d)
         IN  [n |-> n \div g, d |-> d \div g]

\* a > b on floats: false when either side is NaN.
FracGT(a, b) == ~IsNaN(a) /\ ~IsNaN(b) /\ a.n * b.d > b.n * a.d

FracGE(a, b) == ~IsNaN(a) /\ ~IsNaN(b) /\ a.n * b.d >= b.n * a.d

\* The rows of a 2-D tensor, or the elements of a 1-D tensor, kept by a
\* boolean mask over dimension 0: t[mask].
RECURSIVE MaskedRows(_, _, _)
MaskedRows(t, mask, k) ==
    IF k >= TLen(t) THEN <<>>
    ELSE (IF mask[k + 1] THEN Row(t, k) ELSE <<>>) \o MaskedRows(t, mask, k + 1)

MaskSelect(t, mask) ==
    LET data == MaskedRows(t, mask, 0)
    IN  Tensor(<<Len(data) \div RowSize(t)>> \o Tail(t.shape), data)

\* line 232, 233: the mask labels > 0
ForegroundMask(l) == [k \in 1..TLen(l) |-> l.data[k] > 0]

\* line 234: labels -= 1
Decrement(l) == Tensor(l.shape, [k \in 1..Len(l.data) |-> l.data[k] - 1])

\* torch.max(outputs, 1)[1]: the index of the largest score of each row.
ArgMax(row) ==
    CHOOSE c \in 0..(Len(row) - 1) :
        /\ \A e \in 0..(Len(row) - 1) : row[c + 1] >= row[e + 1]
        /\ \A e \in 0..(c - 1) : row[e + 1] < row[c + 1]

Preds(o) == Tensor(<<TLen(o)>>, [k \in 1..TLen(o) |-> ArgMax(Row(o, k - 1))])

\* A loss is the exact number (n + k * K) / d, in lowest terms with d > 0,
\* where K = ln(e + NClasses - 1) is the log-sum-exp of a row of scores with
\* one 1 and 0 elsewhere, the rows the model's output is made of (for two
\* classes K = ln(1 + e) = 1.313261688...); d = 0 is the float NaN.
LossNaN == [n |-> 0, k |-> 0, d |-> 0]

LossIsNaN(a) == a.d = 0

Abs(i) == IF i < 0 THEN -i ELSE i

LossVal(n, k, d) ==
    IF d = 0 THEN LossNaN
    ELSE LET g == GCD(GCD(Abs(n), Abs(k)), d)
         IN  [n |-> n \div g, k |-> k \div g, d |-> d \div g]

LossAdd(a, b) ==
    IF LossIsNaN(a) \/ LossIsNaN(b) THEN LossNaN
    ELSE LossVal(a.n * b.d + b.n * a.d, a.k * b.d + b.k * a.d, a.d * b.d)

LossMulInt(a, i) == IF LossIsNaN(a) THEN LossNaN ELSE LossVal(a.n * i, a.k * i, a.d)

LossDivInt(a, i) == IF LossIsNaN(a) THEN LossNaN ELSE LossVal(a.n, a.k, a.d * i)

RECURSIVE LossSum(_)
LossSum(s) ==
    IF s = <<>> THEN LossVal(0, 0, 1) ELSE LossAdd(Head(s), LossSum(Tail(s)))

\* One score is 1 and the others are 0.
IsOneHot(row) ==
    /\ \A c \in 1..Len(row) : row[c] \in {0, 1}
    /\ Sum(row) = 1

\* ln(sum of exp(row[c])): K for a one-hot row, and not defined here for
\* any other row.
LogSumExp(row) ==
    IF IsOneHot(row) THEN LossVal(0, 1, 1)
    ELSE CHOOSE v \in {} : TRUE

\* The cross-entropy of one row: -log softmax(row)[label].
RowLoss(row, label) ==
    LossAdd(LogSumExp(row), LossVal(-row[label + 1], 0, 1))

\* nn.CrossEntropyLoss(): the mean of the rows' losses, NaN for no row.
criterion(o, l) ==
    LossDivInt(LossSum([k \in 1..TLen(o) |->
                           RowLoss(Row(o, k - 1), l.data[k])]),
               TLen(o))

\* torch.sum(preds == labels.data)
Corrects(p, l) == Cardinality({k \in 1..TLen(p) : p.data[k] = l.data[k]})

\* The label grids a loader can yield and the outputs the model can give:
\* one score per class and position, 1 for the predicted class, else 0.
LabelGrids ==
    {Tensor(LabelShape, d) : d \in [1..Prod(LabelShape) -> 0..NClasses]}

\* The predicted classes tried, one per position: they differ between the
\* positions, so that a row taken from the wrong position shows, and the
\* labels run over every grid, so that each position is predicted rightly
\* in some batches and wrongly in others.
PredictionsTried == {<<0, 1>>}

ModelOutput(pred) ==
    LET shape == <<LabelShape[1], NClasses, LabelShape[2], LabelShape[3]>>
    IN  Tensor(shape,
               [f \in 1..Prod(shape) |->
                   LET idx == Unravel(shape, f - 1)
                       pos == Offset(LabelShape, <<idx[1], idx[3], idx[4]>>)
                   IN  IF pred[pos + 1] = idx[2] THEN 1 ELSE 0])

ModelOutputs ==
    {ModelOutput(pred) : pred \in PredictionsTried}

NewOptimizer == [steps |-> 0, zeros |-> 0]

InitialWeights == [g |-> 0, f |-> 0]

NoBatch == [labels |-> None, outputs |-> None]

TMIdle ==
    /\ num_epochs = 0 /\ finetune = FALSE /\ accum_iters = 1
    /\ f_opt = None /\ outfile = None
    /\ n_train = 1 /\ n_val = 1 /\ optimizer = NewOptimizer
    /\ tm_pc = "idle" /\ epoch = 0 /\ phase = "train" /\ batch_ind = 0
    /\ params = InitialWeights /\ grads = [g |-> <<>>, f |-> <<>>]
    /\ running_loss = LossVal(0, 0, 1) /\ running_corrects = 0
    /\ running_foreground = 0
    /\ batch = NoBatch /\ outputs = None /\ labels = None
    /\ loss = LossNaN /\ preds = None
    /\ best_acc = Frac(0, 1) /\ best_model_wts = InitialWeights
    /\ val_acc_history = <<>>
    /\ disk = [model |-> None, opt |-> None, writes |-> 0]
    /\ step_log = <<>> /\ val_log = <<>> /\ n_snapshots = 0

\* lines 175-187: the arguments, and the state before the first epoch
TMInit ==
    /\ num_epochs \in 0..MaxEpochs
    /\ finetune \in BOOLEAN
    /\ accum_iters \in 1..MaxAccum
    /\ f_opt \in {None, Some(NewOptimizer)}
    /\ outfile \in {None, Some("gridnet.pt")}
    /\ n_train \in 1..MaxTrainBatches
    /\ n_val \in 1..MaxValBatches
    /\ optimizer = NewOptimizer
    /\ tm_pc = "epoch" /\ epoch = 0 /\ phase = "train" /\ batch_ind = 0
    /\ params = InitialWeights /\ grads = [g |-> <<>>, f |-> <<>>]
    /\ running_loss = LossVal(0, 0, 1) /\ running_corrects = 0
    /\ running_foreground = 0
    /\ batch = NoBatch /\ outputs = None /\ labels = None
    /\ loss = LossNaN /\ preds = None
    /\ best_acc = Frac(0, 1) /\ best_model_wts = params
    /\ val_acc_history = <<>>
    /\ disk = [model |-> None, opt |-> None, writes |-> 0]
    /\ step_log = <<>> /\ val_log = <<>> /\ n_snapshots = 0

\* lines 189-211: an epoch begins with its train phase; when fine-tuning,
\* lines 202-204 make every parameter of the patch classifier trainable
EnterEpoch ==
    /\ pc_trainable' = (finetune \/ pc_trainable)
    /\ UNCHANGED <<patch_shape, grid_shape, n_classes, atonce_patch_limit,
                   pc_weight, x, pp_pc, patch_list, cp_chunks, count,
                   patch_pred_list, patch_pred_grid, chunk_log, ppl_calls>>
    /\ tm_pc = "epoch"
    /\ epoch < num_epochs
    /\ phase' = "train"
    /\ running_loss' = LossVal(0, 0, 1)
    /\ running_corrects' = 0
    /\ running_foreground' = 0
    /\ batch_ind' = 0
    /\ tm_pc' = "batch"
    /\ UNCHANGED <<num_epochs, finetune, accum_iters, f_opt, outfile, n_train, n_val,
                   optimizer, epoch, params, grads, batch, outputs, labels,
                   loss, preds, best_acc, best_model_wts, val_acc_history,
                   disk, step_log, val_log, n_snapshots>>

\* line 214: the number of batches the current phase's loader yields
PhaseBatches == IF phase = "train" THEN n_train ELSE n_val

\* line 220, 244: gradients are tracked and backpropagated in train only
DoesBackwardInBothPhases(ph) == TRUE

DoesBackward(ph) == ph = "train"

\* line 247
ShouldStep(ind, accum) == ind % accum = 0

\* line 236
ScaledLoss(crit, accum) == LossDivInt(crit, accum)

\* lines 229-230: outputs to channel-last rows
OutputRows(o) == Reshape(PermuteBy(o, <<0, 2, 3, 1>>), <<o.shape[2]>>)

\* line 231
FlatLabels(l) == Reshape(l, <<>>)

\* line 232
MaskedOutputs(o, l) == MaskSelect(OutputRows(o), ForegroundMask(FlatLabels(l)))

\* lines 233-234
MaskedLabels(l) ==
    Decrement(MaskSelect(FlatLabels(l), ForegroundMask(FlatLabels(l))))

\* lines 229-241: the locals the loop body computes from a batch's labels
\* and the model's output for it, the loss before its scaling
BatchLocals(lab, out) ==
    LET o == MaskedOutputs(out, lab)
        l == MaskedLabels(lab)
        p == Preds(o)
    IN  [outputs |-> o, labels |-> l, preds |-> p,
         criterion |-> criterion(o, l), corrects |-> Corrects(p, l)]

\* BatchLocals, tabulated once over the batches tried.
BatchLocalsOf ==
    [lab \in LabelGrids, out \in ModelOutputs |-> BatchLocals(lab, out)]

\* lines 214-257: one batch of the current phase
Batch ==
    /\ UNCHANGED pp_vars
    /\ tm_pc = "batch"
    /\ batch_ind < PhaseBatches
    /\ \E lab \in LabelGrids, out \in ModelOutputs :
        /\ batch' = [labels |-> lab, outputs |-> out]
        /\ outputs' = BatchLocalsOf[lab, out].outputs
        /\ labels' = BatchLocalsOf[lab, out].labels
        /\ loss' = ScaledLoss(BatchLocalsOf[lab, out].criterion, accum_iters)
        /\ preds' = BatchLocalsOf[lab, out].preds
        /\ running_loss' =
              LossAdd(running_loss, LossMulInt(loss', lab.shape[1]))
        /\ running_corrects' = running_corrects + BatchLocalsOf[lab, out].corrects
        /\ running_foreground' = running_foreground + TLen(labels')
    /\ LET contribution == [epoch |-> epoch, batch |-> batch_ind,
                            scale |-> accum_iters]
           backward == [g |-> Append(grads.g, contribution),
                        f |-> IF f_opt # None
                              THEN Append(grads.f, contribution) ELSE grads.f]
       IN  IF DoesBackward(phase)
           THEN IF ShouldStep(batch_ind, accum_iters)
                THEN /\ optimizer' = [steps |-> optimizer.steps + 1,
                                      zeros |-> optimizer.zeros + 1]
                     /\ f_opt' = IF f_opt # None
                                 THEN Some([steps |-> f_opt[1].steps + 1,
                                            zeros |-> f_opt[1].zeros + 1])
                                 ELSE f_opt
                     /\ params' = [g |-> params.g + 1,
                                   f |-> IF f_opt # None THEN params.f + 1
                                         ELSE params.f]
                     /\ grads' = [g |-> <<>>, f |-> <<>>]
                     /\ step_log' = Append(step_log,
                           [epoch |-> epoch, batch |-> batch_ind,
                            applied |-> backward.g,
                            f_stepped |-> f_opt # None,
                            f_applied |-> backward.f])
                ELSE /\ grads' = backward
                     /\ UNCHANGED <<optimizer, f_opt, params, step_log>>
           ELSE UNCHANGED <<optimizer, f_opt, params, step_log, grads>>
    /\ batch_ind' = batch_ind + 1
    /\ UNCHANGED <<num_epochs, finetune, accum_iters, outfile, n_train, n_val, tm_pc,
                   epoch, phase, best_acc, best_model_wts, val_acc_history,
                   disk, val_log, n_snapshots>>

\* line 261
EpochAcc == Frac(running_corrects, running_foreground)

\* line 272
ImprovesOrEquals(ph, acc, best) == ph = "val" /\ FracGE(acc, best)

Improves(ph, acc, best) == ph = "val" /\ FracGT(acc, best)

\* line 284
RecordsHistory(ph) == ph = "val"

\* lines 276-283: the weights, and the optimizer state(s) beside them
SavedFiles ==
    [model |-> Some(params),
     opt |-> IF f_opt # None
             THEN Some([g_opt |-> Some(optimizer), f_opt |-> f_opt])
             ELSE Some([g_opt |-> Some(optimizer), f_opt |-> None]),
     writes |-> disk.writes + 1]

\* lines 260-285, then the next phase (194-211) or the next epoch (189)
PhaseEnd ==
    /\ UNCHANGED pp_vars
    /\ tm_pc = "batch"
    /\ ~(batch_ind < PhaseBatches)
    /\ IF Improves(phase, EpochAcc, best_acc)
       THEN /\ best_acc' = EpochAcc
            /\ best_model_wts' = params
            /\ n_snapshots' = n_snapshots + 1
            /\ disk' = IF outfile # None THEN SavedFiles ELSE disk
       ELSE UNCHANGED <<best_acc, best_model_wts, n_snapshots, disk>>
    /\ IF RecordsHistory(phase)
       THEN val_acc_history' = Append(val_acc_history, EpochAcc)
       ELSE UNCHANGED val_acc_history
    /\ IF phase = "val"
       THEN val_log' = Append(val_log,
               [epoch |-> epoch, acc |-> EpochAcc, wts |-> params])
       ELSE UNCHANGED val_log
    /\ IF phase = "train"
       THEN /\ phase' = "val"
            /\ running_loss' = LossVal(0, 0, 1)
            /\ running_corrects' = 0
            /\ running_foreground' = 0
            /\ batch_ind' = 0
            /\ UNCHANGED <<tm_pc, epoch>>
       ELSE /\ epoch' = epoch + 1
            /\ tm_pc' = "epoch"
            /\ UNCHANGED <<phase, running_loss, running_corrects,
                           running_foreground, batch_ind>>
    /\ UNCHANGED <<num_epochs, finetune, accum_iters, f_opt, outfile, n_train, n_val,
                   optimizer, params, grads, batch, outputs, labels, loss,
                   preds, step_log>>

\* line 294
LastEpochWeights == params

RestoredWeights == best_model_wts

\* lines 289-295: the best weights are loaded and the model is returned
Finish ==
    /\ UNCHANGED pp_vars
    /\ tm_pc = "epoch"
    /\ ~(epoch < num_epochs)
    /\ params' = RestoredWeights
    /\ tm_pc' = "done"
    /\ UNCHANGED <<num_epochs, finetune, accum_iters, f_opt, outfile, n_train, n_val,
                   optimizer, epoch, phase, batch_ind, grads, running_loss,
                   running_corrects, running_foreground, batch, outputs,
                   labels, loss, preds, best_acc, best_model_wts,
                   val_acc_history, disk, step_log, val_log, n_snapshots>>

TMNext ==
    \/ EnterEpoch
    \/ Batch
    \/ PhaseEnd
    \/ Finish

\* ---------------------------------------------------------- specifications

Init == TMInit /\ PPIdle

InitPP == PPInit /\ TMIdle

\* train_model; the program is sequential and runs each step it can take.
Spec == Init /\ [][TMNext]_vars /\ WF_vars(TMNext)

\* GridNet.patch_predictions
SpecPP == InitPP /\ [][PPNext]_vars /\ WF_vars(PPNext)

\* ------------------------------------------------ claims: patch_predictions

\* The input has the shape (batch, grid_h, grid_w, channels, patch_h,
\* patch_w) the network was built for.
ValidInput ==
    /\ Len(x.shape) = 6
    /\ SubSeq(x.shape, 2, 3) = grid_shape
    /\ SubSeq(x.shape, 4, 6) = patch_shape

\* The patch at grid position (b, i, j) of a valid input, as a flat sequence.
PatchAt(b, i, j) ==
    SubSeq(x.data, Offset(x.shape, <<b, i, j, 0, 0, 0>>) + 1,
           Offset(x.shape, <<b, i, j, 0, 0, 0>>) + Prod(patch_shape))

\* N: the number of patches of the flattened input.
NPatches == Numel(x) \div Prod(patch_shape)

\* The call has ended, by returning or by raising.
Ended == pp_pc \in {"done", "raised@73", "raised@94", "raised@96"}

\* What patch_predictions does for the input when no limit is set: the
\* whole flattened list is classified by one call.
UnchunkedList == patch_classifier(Reshape(x, patch_shape))

UnchunkedGrid ==
    PermuteBy(Reshape(UnchunkedList, grid_shape \o <<n_classes>>), <<0, 3, 1, 2>>)

Unchunked ==
    IF ReshapeRaises(x, patch_shape)
    THEN [pc |-> "raised@73", grid |-> None]
    ELSE IF ReshapeRaises(UnchunkedList, grid_shape \o <<n_classes>>)
    THEN [pc |-> "raised@96", grid |-> None]
    ELSE [pc |-> "done", grid |-> UnchunkedGrid]

\* C2: for a classifier that maps each patch independently, the outcome of
\* patch_predictions (the prediction list and the returned grid, or the
\* error raised) is the same for the same input whether atonce_patch_limit
\* is None or any positive integer, and whether or not the chunk calls go
\* through gradient checkpointing.
C2_ChunkedEqualsUnchunked ==
    /\ pp_pc \in {"grid", "done"} => patch_pred_list = UnchunkedList
    /\ Ended => (pp_pc = Unchunked.pc /\ patch_pred_grid = Unchunked.grid)

\* A run with a limit that divides the patch count unevenly, through
\* checkpointing, has returned.
C2_Witness ==
    /\ pp_pc = "done"
    /\ atonce_patch_limit # None
    /\ pc_trainable
    /\ Len(chunk_log) >= 2
    /\ NPatches % atonce_patch_limit[1] # 0
    /\ patch_pred_grid = UnchunkedGrid

\* C3: with limit L and N patches the chunks are contiguous, start at
\* offsets 0, L, 2L, ..., hold L patches each except possibly the last,
\* which holds N - L*floor(N/L) when that is not zero; no chunk is empty,
\* every patch index belongs to exactly one chunk, and the results are
\* concatenated in the original patch order (with no patch there is no
\* chunk, and nothing to concatenate).
C3_ChunkPartition ==
    (pp_pc \in {"loop", "grid", "done", "raised@94", "raised@96"}
        /\ atonce_patch_limit # None) =>
        LET L == atonce_patch_limit[1]
            N == NPatches
            n == Len(chunk_log)
            rest == N - L * (N \div L)
        IN  /\ TLen(patch_list) = N
            /\ \A i \in 1..n :
                /\ chunk_log[i].start = (i - 1) * L
                /\ chunk_log[i].length >= 1
                /\ chunk_log[i].length =
                      IF i = CeilDiv(N, L) /\ rest # 0 THEN rest ELSE L
            /\ pp_pc = "raised@94" => (N = 0 /\ n = 0)
            /\ pp_pc \in {"grid", "done", "raised@96"} =>
                /\ \A k \in 0..(N - 1) :
                      Cardinality({i \in 1..n :
                          /\ chunk_log[i].start <= k
                          /\ k < chunk_log[i].start + chunk_log[i].length}) = 1
                /\ patch_pred_list.shape = <<N, n_classes>>
                /\ \A k \in 0..(N - 1) :
                      Row(patch_pred_list, k) = PatchScores(Row(patch_list, k))

\* A run of three or more chunks whose last chunk is smaller than the others.
C3_Witness ==
    /\ pp_pc = "done"
    /\ atonce_patch_limit # None
    /\ Len(chunk_log) >= 3
    /\ chunk_log[Len(chunk_log)].length < atonce_patch_limit[1]
    /\ chunk_log[1].length = atonce_patch_limit[1]

\* C4: for an input of shape (batch, grid_h, grid_w, channels, patch_h,
\* patch_w) with at least one grid the call returns, and every result
\* returned for an input of that shape has shape (batch, n_classes, grid_h,
\* grid_w) and its entry [b, c, i, j] is class score c of the classifier's
\* prediction for the patch at input position [b, i, j].
C4_GridArrangement ==
    /\ (ValidInput /\ x.shape[1] >= 1 /\ Ended) => pp_pc = "done"
    /\ (ValidInput /\ pp_pc = "done") =>
        /\ patch_pred_grid.shape =
              <<x.shape[1], n_classes, grid_shape[1], grid_shape[2]>>
        /\ \A b \in 0..(x.shape[1] - 1), c \in 0..(n_classes - 1),
              i \in 0..(grid_shape[1] - 1), j \in 0..(grid_shape[2] - 1) :
                At(patch_pred_grid, <<b, c, i, j>>) =
                    PatchScores(PatchAt(b, i, j))[c + 1]

\* A batch of two grids with different height and width has been arranged.
C4_Witness ==
    /\ pp_pc = "done"
    /\ ValidInput
    /\ x.shape[1] = 2
    /\ grid_shape[1] # grid_shape[2]
    /\ Prod(patch_shape) > 1
    /\ patch_pred_grid.shape = <<2, n_classes, grid_shape[1], grid_shape[2]>>

\* C10: for every positive limit L the chunking loop terminates, after
\* exactly ceil(N/L) calls of the patch classifier; its offset counter
\* grows strictly on every iteration and every chunk requested lies within
\* 0..N.  Termination is stated as: the loop can always take a step, every
\* iteration is one more call, and the calls never exceed ceil(N/L).
C10_LoopTerminates ==
    /\ [](pp_pc = "loop" =>
            /\ ENABLED PPNext
            /\ ppl_calls <= CeilDiv(NPatches, atonce_patch_limit[1]))
    /\ []((pp_pc \in {"grid", "done", "raised@94", "raised@96"}
              /\ atonce_patch_limit # None) =>
              ppl_calls = CeilDiv(NPatches, atonce_patch_limit[1]))
    /\ [][(pp_pc = "loop" /\ pp_pc' = "loop") =>
              /\ count' > count
              /\ ppl_calls' = ppl_calls + 1
              /\ chunk_log'[Len(chunk_log')].start >= 0
              /\ chunk_log'[Len(chunk_log')].start
                    + chunk_log'[Len(chunk_log')].length <= NPatches]_vars

\* The loop has ended after several iterations, the last one short.
C10_Witness ==
    /\ pp_pc = "grid"
    /\ atonce_patch_limit # None
    /\ ppl_calls >= 3
    /\ count > NPatches

\* -------------------------------------------------- claims: train_model

\* The steps the optimizers took in epoch e.
StepsOfEpoch(e) == {i \in 1..Len(step_log) : step_log[i].epoch = e}

\* C1: the primary optimizer, and f_opt when given, is stepped and zeroed
\* exactly once per group of accum_iters consecutive train batches, never
\* on a batch within a group, and not before accum_iters batches have been
\* backpropagated.
C1_StepOncePerGroup ==
    /\ \A i \in 1..Len(step_log) :
          /\ (step_log[i].batch + 1) % accum_iters = 0
          /\ step_log[i].f_stepped = (f_opt # None)
    /\ optimizer.steps = Len(step_log) /\ optimizer.zeros = Len(step_log)
    /\ f_opt # None =>
          f_opt[1].steps = Len(step_log) /\ f_opt[1].zeros = Len(step_log)
    /\ (tm_pc = "batch" /\ phase = "train") =>
          Cardinality(StepsOfEpoch(epoch)) = batch_ind \div accum_iters

\* C9: every optimizer step applies the gradients of exactly accum_iters
\* train batches, each scaled by 1/accum_iters, all backpropagated in the
\* step's own epoch since the previous zeroing; nothing accumulated is left
\* at the end of a train phase.
C9_StepsApplyFullGroups ==
    /\ \A i \in 1..Len(step_log) :
          /\ Len(step_log[i].applied) = accum_iters
          /\ \A k \in 1..Len(step_log[i].applied) :
                /\ step_log[i].applied[k].epoch = step_log[i].epoch
                /\ step_log[i].applied[k].scale = accum_iters
          /\ step_log[i].f_stepped => step_log[i].f_applied = step_log[i].applied
    /\ (tm_pc \in {"epoch", "done"} \/ phase = "val") =>
          grads.g = <<>> /\ grads.f = <<>>

\* The positions of a flattened label grid whose label is not background, in
\* order, and the scores the model gave position p (1-based, row-major).
ForegroundPositions(lab) ==
    LET IsForeground(q) == lab.data[q] > 0
    IN  SelectSeq([q \in 1..Len(lab.data) |-> q], IsForeground)

ScoresAt(out, p) ==
    LET idx == Unravel(LabelShape, p - 1)
    IN  [c \in 1..out.shape[2] |-> At(out, <<idx[1], c - 1, idx[2], idx[3]>>)]

\* C5: in every batch of either phase, every retained label is >= 1 before
\* the decrement and >= 0 after it, the retained outputs and labels belong
\* to the same grid positions, and the positions labelled 0 contribute
\* nothing to the loss, running_loss, running_corrects or
\* running_foreground: the statistics grow by what the foreground positions
\* give, and a batch whose labels are all 0 leaves them as they were.
C5_BackgroundNeverContributes ==
    [][(tm_pc = "batch" /\ batch_ind' = batch_ind + 1) =>
        LET lab == batch'.labels
            out == batch'.outputs
            fg == ForegroundPositions(lab)
            terms == [k \in 1..Len(fg) |->
                         RowLoss(ScoresAt(out, fg[k]), lab.data[fg[k]] - 1)]
            hits == {k \in 1..Len(fg) :
                         ArgMax(ScoresAt(out, fg[k])) = lab.data[fg[k]] - 1}
        IN  /\ TLen(labels') = Len(fg)
            /\ TLen(outputs') = Len(fg)
            /\ \A k \in 1..Len(fg) :
                  /\ labels'.data[k] + 1 = lab.data[fg[k]]
                  /\ labels'.data[k] + 1 >= 1
                  /\ labels'.data[k] >= 0
                  /\ Row(outputs', k - 1) = ScoresAt(out, fg[k])
            /\ running_foreground' = running_foreground + Len(fg)
            /\ running_corrects' = running_corrects + Cardinality(hits)
            /\ \A scaled \in {LossDivInt(LossSum(terms),
                                          Len(fg) * accum_iters)} :
                  running_loss' =
                      IF fg = <<>> THEN running_loss
                      ELSE LossAdd(running_loss,
                                   LossMulInt(scaled, lab.shape[1]))]_vars

\* The accuracy of the phase that is ending, from the statistics.
PhaseAccuracy == Frac(running_corrects, running_foreground)

\* A validation phase is ending with an accuracy above the best so far.
ValPhaseEndsBetter ==
    /\ tm_pc = "batch" /\ phase = "val" /\ batch_ind = n_val
    /\ running_foreground > 0
    /\ running_corrects * best_acc.d > best_acc.n * running_foreground

\* C6: best_acc never decreases, and the best-weights snapshot is replaced,
\* and the weights and optimizer state(s) written to disk when an output
\* path is given, exactly at the end of the validation phases whose
\* accuracy is strictly above the best so far: never at the end of a train
\* phase, never for an accuracy equal to or below the best so far.
C6_SnapshotExactlyOnImprovement ==
    [][/\ FracGE(best_acc', best_acc)
       /\ (n_snapshots' # n_snapshots \/ best_model_wts' # best_model_wts
             \/ best_acc' # best_acc) => ValPhaseEndsBetter
       /\ ValPhaseEndsBetter =>
             /\ n_snapshots' = n_snapshots + 1
             /\ best_model_wts' = params
             /\ best_acc' = PhaseAccuracy
       /\ disk' # disk <=> (ValPhaseEndsBetter /\ outfile # None)
       /\ disk' # disk =>
             /\ disk'.writes = disk.writes + 1
             /\ disk'.model = Some(params)
             /\ disk'.opt = Some([g_opt |-> Some(optimizer), f_opt |-> f_opt])
      ]_vars

\* Two epochs have run: the first improved on the initial best and was
\* saved, the second reached the same accuracy and was not.
C6_Witness ==
    /\ tm_pc = "done"
    /\ Len(val_acc_history) = 2
    /\ val_acc_history[1] = val_acc_history[2]
    /\ FracGT(val_acc_history[1], Frac(0, 1))
    /\ outfile # None /\ f_opt # None
    /\ n_snapshots = 1
    /\ disk.writes = 1

\* The validation accuracies that are numbers.
IsMaxOfHistory(a) ==
    /\ ~IsNaN(a)
    /\ \A j \in 1..Len(val_acc_history) :
          ~IsNaN(val_acc_history[j]) => FracGE(a, val_acc_history[j])

HistoryPerEpoch ==
    /\ Len(val_acc_history) = num_epochs
    /\ Len(val_log) = num_epochs
    /\ \A e \in 1..num_epochs :
          /\ val_log[e].epoch = e - 1
          /\ val_acc_history[e] = val_log[e].acc

\* C7 as stated: on return the model holds the weights it had during the
\* validation phase of the epoch whose validation accuracy is the maximum
\* of the returned history, and the history holds one validation accuracy
\* per epoch, in epoch order.
C7_ReturnsWeightsOfBestEpoch ==
    (tm_pc = "done" /\ num_epochs >= 1
        /\ \A j \in 1..Len(val_acc_history) : ~IsNaN(val_acc_history[j])) =>
        /\ HistoryPerEpoch
        /\ \E e \in 1..num_epochs :
              /\ IsMaxOfHistory(val_acc_history[e])
              /\ params = val_log[e].wts

\* C7, amended: on return the history holds one validation accuracy per
\* epoch, in epoch order, and the model holds the best snapshot: when some
\* epoch's validation accuracy is above 0, the weights of the validation
\* phase of the first epoch that reached the maximum of the history;
\* otherwise the weights the model had when train_model was called.
C7_ReturnsBestSnapshot ==
    tm_pc = "done" =>
        /\ HistoryPerEpoch
        /\ params = best_model_wts
        /\ IF \E e \in 1..num_epochs : FracGT(val_acc_history[e], Frac(0, 1))
           THEN \E e \in 1..num_epochs :
                   /\ IsMaxOfHistory(val_acc_history[e])
                   /\ \A j \in 1..(e - 1) :
                         ~FracGE(val_acc_history[j], val_acc_history[e])
                   /\ params = val_log[e].wts
                   /\ best_acc = val_acc_history[e]
           ELSE params = InitialWeights

\* train_model has returned the weights of the first of two epochs, whose
\* validation accuracy was the higher one.
C7_Witness ==
    /\ tm_pc = "done"
    /\ num_epochs = 2
    /\ FracGT(val_acc_history[1], val_acc_history[2])
    /\ params = val_log[1].wts
    /\ params # val_log[2].wts

\* An optimizer step of a train batch.
TrainStep ==
    /\ tm_pc = "batch" /\ phase = "train"
    /\ optimizer'.steps = optimizer.steps + 1

\* Nothing of the model or the optimizers changes in a validation phase.
ValPhaseFrame ==
    (tm_pc = "batch" /\ phase = "val") =>
        /\ params' = params
        /\ grads' = grads
        /\ optimizer' = optimizer
        /\ f_opt' = f_opt
        /\ step_log' = step_log
        /\ n_snapshots' # n_snapshots => best_model_wts' = params

\* C8 as stated: the parameters change only by an optimizer step taken in a
\* train phase; in a validation phase no backward pass runs, no optimizer
\* is stepped or zeroed, the parameters and the accumulated gradients stay
\* what they were, and the snapshot taken at its end is the weights that
\* were evaluated.
C8_ParamsChangeOnlyByTrainStep ==
    [][/\ params' # params => TrainStep
       /\ ValPhaseFrame]_vars

\* C8, amended: within the epochs the parameters change only by an
\* optimizer step taken in a train phase, and after the last epoch by the
\* load of the best snapshot; the validation phase is as stated.
C8_ParamsChangeByTrainStepOrRestore ==
    [][/\ params' # params =>
             \/ TrainStep
             \/ /\ tm_pc = "epoch" /\ tm_pc' = "done"
                /\ params' = best_model_wts
       /\ ValPhaseFrame]_vars

\* A validation phase has run all its batches while gradients of a train
\* batch were still accumulated, and they are untouched.
C8_Witness ==
    /\ tm_pc = "batch" /\ phase = "val" /\ batch_ind = n_val
    /\ grads.g # <<>>
    /\ params.g >= 1

====
